---- MODULE Spec2Model ----
(***************************************************************************)
(* The two reference random generators of CwlUtils/CwlSignal:              *)
(*   - MT19937-64 (mt19937-64.c): init_genrand64, init_by_array64,         *)
(*     genrand64_int64 with the restructured "untwist", genrand64_int63;   *)
(*   - xoshiro256** (xoshiro256starstar.c): rotl, xoshiro_next.            *)
(*                                                                         *)
(* An unsigned 64-bit value is a tuple of four 16-bit limbs, least         *)
(* significant first, so that every C operator is computed modulo 2^64     *)
(* with integers that stay below 2^31.  W(a, b, c, d) writes the value     *)
(* whose hexadecimal digits are a b c d, most significant limb first.      *)
(***************************************************************************)
EXTENDS Integers, Sequences, FiniteSets, TLC

\* ------------------------------------------------------------------------
\* unsigned long long / uint64_t arithmetic
\* ------------------------------------------------------------------------
B16 == 2^16
B8  == 2^8

W(a, b, c, d) == <<d, c, b, a>>
U64(n) == <<n % B16, n \div B16, 0, 0>>     \* a literal below 2^31
Zero64 == U64(0)
One64  == U64(1)

RECURSIVE AndN(_, _)
AndN(a, b) ==
    IF a = 0 \/ b = 0 THEN 0
    ELSE (a % 2) * (b % 2) + 2 * AndN(a \div 2, b \div 2)

RECURSIVE OrN(_, _)
OrN(a, b) ==
    IF a = 0 THEN b
    ELSE IF b = 0 THEN a
    ELSE (IF a % 2 = 1 \/ b % 2 = 1 THEN 1 ELSE 0) + 2 * OrN(a \div 2, b \div 2)

RECURSIVE XorN(_, _)
XorN(a, b) ==
    IF a = 0 THEN b
    ELSE IF b = 0 THEN a
    ELSE ((a + b) % 2) + 2 * XorN(a \div 2, b \div 2)

\* The three operators on bytes, tabulated once: entry [a + 1][b + 1] is a op b.
AndT == [a \in 1..B8 |-> [b \in 1..B8 |-> AndN(a - 1, b - 1)] \o <<>>] \o <<>>
OrT  == [a \in 1..B8 |-> [b \in 1..B8 |-> OrN(a - 1, b - 1)] \o <<>>] \o <<>>
XorT == [a \in 1..B8 |-> [b \in 1..B8 |-> XorN(a - 1, b - 1)] \o <<>>] \o <<>>

\* a op b on 16-bit limbs, from the table T of the operator on bytes
Limb(T, a, b) == T[(a % B8) + 1][(b % B8) + 1] + B8 * T[(a \div B8) + 1][(b \div B8) + 1]

And64(a, b) ==
    <<Limb(AndT, a[1], b[1]), Limb(AndT, a[2], b[2]), Limb(AndT, a[3], b[3]), Limb(AndT, a[4], b[4])>>
Or64(a, b) ==
    <<Limb(OrT, a[1], b[1]), Limb(OrT, a[2], b[2]), Limb(OrT, a[3], b[3]), Limb(OrT, a[4], b[4])>>
Xor64(a, b) ==
    <<Limb(XorT, a[1], b[1]), Limb(XorT, a[2], b[2]), Limb(XorT, a[3], b[3]), Limb(XorT, a[4], b[4])>>

LimbAt(w, k) == IF k \in 1..4 THEN w[k] ELSE 0

\* w >> n and w << n for 0 <= n < 64
Shr64(w, n) ==
    LET q  == n \div 16
        lo == 2^(n % 16)
        hi == 2^(16 - (n % 16))
    IN  <<(LimbAt(w, 1 + q) \div lo) + (LimbAt(w, 2 + q) % lo) * hi,
          (LimbAt(w, 2 + q) \div lo) + (LimbAt(w, 3 + q) % lo) * hi,
          (LimbAt(w, 3 + q) \div lo) + (LimbAt(w, 4 + q) % lo) * hi,
          (LimbAt(w, 4 + q) \div lo)>>

Shl64(w, n) ==
    LET q  == n \div 16
        lo == 2^(n % 16)
        hi == 2^(16 - (n % 16))
    IN  <<(LimbAt(w, 1 - q) * lo) % B16,
          ((LimbAt(w, 2 - q) * lo) % B16) + (LimbAt(w, 1 - q) \div hi),
          ((LimbAt(w, 3 - q) * lo) % B16) + (LimbAt(w, 2 - q) \div hi),
          ((LimbAt(w, 4 - q) * lo) % B16) + (LimbAt(w, 3 - q) \div hi)>>

Add64(a, b) ==
    LET s1 == a[1] + b[1]
        s2 == a[2] + b[2] + (s1 \div B16)
        s3 == a[3] + b[3] + (s2 \div B16)
        s4 == a[4] + b[4] + (s3 \div B16)
    IN  <<s1 % B16, s2 % B16, s3 % B16, s4 % B16>>

\* a - b = a + ~b + 1 (mod 2^64)
Sub64(a, b) ==
    LET s1 == a[1] + (B16 - 1 - b[1]) + 1
        s2 == a[2] + (B16 - 1 - b[2]) + (s1 \div B16)
        s3 == a[3] + (B16 - 1 - b[3]) + (s2 \div B16)
        s4 == a[4] + (B16 - 1 - b[4]) + (s3 \div B16)
    IN  <<s1 % B16, s2 % B16, s3 % B16, s4 % B16>>

Bytes(w) == <<w[1] % B8, w[1] \div B8, w[2] % B8, w[2] \div B8,
              w[3] % B8, w[3] \div B8, w[4] % B8, w[4] \div B8>>

RECURSIVE Dot(_, _, _, _)
Dot(x, y, k, i) == IF i > k THEN 0 ELSE x[i + 1] * y[k - i + 1] + Dot(x, y, k, i + 1)

RECURSIVE MulCols(_, _, _, _)
MulCols(x, y, k, carry) ==
    IF k > 7 THEN <<>>
    ELSE LET s == carry + Dot(x, y, k, 0)
         IN  <<s % B8>> \o MulCols(x, y, k + 1, s \div B8)

\* a * b (mod 2^64): the schoolbook product of the byte digits, low 8 columns
\* (the products by 0 and by 1 are taken directly)
Mul64(a, b) ==
    IF a = Zero64 THEN Zero64
    ELSE IF a = One64 THEN b
    ELSE LET p == MulCols(Bytes(a), Bytes(b), 0, 0)
         IN  <<p[1] + B8 * p[2], p[3] + B8 * p[4], p[5] + B8 * p[6], p[7] + B8 * p[8]>>

\* ------------------------------------------------------------------------
\* mt19937-64.c
\* ------------------------------------------------------------------------
NN == 312
MM == 156
MATRIX_A == W(\HB502, \H6F5A, \HA966, \H19E9)
UM == W(\HFFFF, \HFFFF, \H8000, \H0000)     \* most significant 33 bits
LM == W(\H0000, \H0000, \H7FFF, \HFFFF)     \* least significant 31 bits

\* mt[i] of the C array (0-based).  Every index the code uses lies in
\* 0..NN-1 (IndexInBounds below); the other branch only makes the operator total.
Rd(mt, i) == IF i \in 0..(NN - 1) THEN mt[i + 1] ELSE Zero64
Wr(mt, i, v) == IF i \in 0..(NN - 1) THEN [mt EXCEPT ![i + 1] = v] ELSE mt

\* 6364136223846793005ULL = 0x5851F42D4C957F2D
SeedMul == W(\H5851, \HF42D, \H4C95, \H7F2D)

\* Each C loop "while (Cond(c)) c = Body(c);" is an operator Loop(fuel, c) that
\* runs the loop for at most `fuel` iterations, fuel being at least the
\* number of iterations the loop makes; it is evaluated by halving so that
\* the evaluation stays shallow.
SeedCond(c) == c.mti < NN
SeedBody(c) ==
    [mt  |-> Wr(c.mt, c.mti,
                Add64(Mul64(SeedMul,
                            Xor64(Rd(c.mt, c.mti - 1), Shr64(Rd(c.mt, c.mti - 1), 62))),
                      U64(c.mti))),
     mti |-> c.mti + 1]

RECURSIVE SeedLoop(_, _)
SeedLoop(fuel, c) ==
    IF fuel = 0 \/ ~SeedCond(c) THEN c
    ELSE IF fuel = 1 THEN SeedBody(c)
    ELSE SeedLoop(fuel - (fuel \div 2), SeedLoop(fuel \div 2, c))

\* the struct passed by value: the caller's context is left as it was
init_genrand64_byValue(context, seed) == context
init_genrand64(context, seed) ==
    SeedLoop(NN, [mt |-> Wr(context.mt, 0, seed), mti |-> 1])


\* 3935559000370003845ULL = 0x369DEA0F31A53F85, 2862933555777941757ULL = 0x27BB2EE687B0B0FD
KeyMul1 == W(\H369D, \HEA0F, \H31A5, \H3F85)
KeyMul2 == W(\H27BB, \H2EE6, \H87B0, \HB0FD)
\* 19650218ULL = 0x012BD6AA
ArraySeed == W(\H0000, \H0000, \H012B, \HD6AA)
MSB == W(\H8000, \H0000, \H0000, \H0000)    \* 1ULL << 63

\* init_key[j] of the C array (0-based); total like Rd
KeyAt(init_key, j) == IF j \in 0..(Len(init_key) - 1) THEN init_key[j + 1] ELSE Zero64

\* The loop state of init_by_array64: the register, the cursors i and j, the
\* counter k, and a record of the cursor values the body used (ci, cj) and of
\* the number of iterations of each pass (n1, n2).
\* "if (i>=NN)" of both passes
CursorWrapsLate(i) == i > NN
CursorWraps(i) == i >= NN

Pass1Cond(c) == c.k # 0
Pass1Body(c) ==
    LET prev == Rd(c.mt, c.i - 1)
        v    == Add64(Add64(Xor64(Rd(c.mt, c.i), Mul64(Xor64(prev, Shr64(prev, 62)), KeyMul1)),
                            KeyAt(c.init_key, c.j)),
                      U64(c.j))
        mt1  == Wr(c.mt, c.i, v)
        i1   == c.i + 1
        j1   == c.j + 1
    IN  [c EXCEPT !.mt = IF CursorWraps(i1) THEN Wr(mt1, 0, Rd(mt1, NN - 1)) ELSE mt1,
                  !.i  = IF CursorWraps(i1) THEN 1 ELSE i1,
                  !.j  = IF j1 >= c.key_length THEN 0 ELSE j1,
                  !.k  = c.k - 1,
                  !.ci = @ \cup {c.i},
                  !.cj = @ \cup {c.j},
                  !.n1 = @ + 1]

RECURSIVE Pass1Loop(_, _)
Pass1Loop(fuel, c) ==
    IF fuel = 0 \/ ~Pass1Cond(c) THEN c
    ELSE IF fuel = 1 THEN Pass1Body(c)
    ELSE Pass1Loop(fuel - (fuel \div 2), Pass1Loop(fuel \div 2, c))

Pass2Cond(c) == c.k # 0
Pass2Body(c) ==
    LET prev == Rd(c.mt, c.i - 1)
        v    == Sub64(Xor64(Rd(c.mt, c.i), Mul64(Xor64(prev, Shr64(prev, 62)), KeyMul2)),
                      U64(c.i))
        mt1  == Wr(c.mt, c.i, v)
        i1   == c.i + 1
    IN  [c EXCEPT !.mt = IF CursorWraps(i1) THEN Wr(mt1, 0, Rd(mt1, NN - 1)) ELSE mt1,
                  !.i  = IF CursorWraps(i1) THEN 1 ELSE i1,
                  !.k  = c.k - 1,
                  !.ci = @ \cup {c.i},
                  !.n2 = @ + 1]

RECURSIVE Pass2Loop(_, _)
Pass2Loop(fuel, c) ==
    IF fuel = 0 \/ ~Pass2Cond(c) THEN c
    ELSE IF fuel = 1 THEN Pass2Body(c)
    ELSE Pass2Loop(fuel - (fuel \div 2), Pass2Loop(fuel \div 2, c))

\* the last statement of init_by_array64
ForceMSBSkipped(mt) == mt
ForceMSB(mt) == Wr(mt, 0, MSB)

init_by_array64(context, init_key, key_length) ==
    LET c0 == init_genrand64(context, ArraySeed)
        k1 == IF NN > key_length THEN NN ELSE key_length
        p1 == Pass1Loop(k1,
                        [mt |-> c0.mt, i |-> 1, j |-> 0, k |-> k1,
                         init_key |-> init_key, key_length |-> key_length,
                         ci |-> {}, cj |-> {}, n1 |-> 0, n2 |-> 0])
        p2 == Pass2Loop(NN - 1, [p1 EXCEPT !.k = NN - 1])
    IN  [mt |-> ForceMSB(p2.mt), mti |-> c0.mti,
         ci |-> p2.ci, cj |-> p2.cj, n1 |-> p2.n1, n2 |-> p2.n2]

\* The loop state of the untwist: the register, the cursors i and j and the
\* set ix of every index used on the register.
UntwistCond(c) == c.i # c.mid - 1
UntwistBody(c) ==
    LET i   == c.i
        j   == c.j
        mid == c.mid
        x   == Or64(And64(Rd(c.mt, i), UM), And64(Rd(c.mt, i + 1), LM))
        mt1 == Wr(c.mt, i,
                  Xor64(Xor64(Rd(c.mt, i + mid), Shr64(x, 1)),
                        Mul64(And64(Rd(c.mt, i + 1), One64), MATRIX_A)))
        y   == Or64(And64(Rd(mt1, j), UM), And64(Rd(mt1, j + 1), LM))
        mt2 == Wr(mt1, j,
                  Xor64(Xor64(Rd(mt1, j - mid), Shr64(y, 1)),
                        Mul64(And64(Rd(mt1, j + 1), One64), MATRIX_A)))
    IN  [c EXCEPT !.mt = mt2, !.i = i + 1, !.j = j + 1,
                  !.ix = @ \cup {i, i + 1, i + mid, j, j + 1, j - mid}]

RECURSIVE UntwistLoop(_, _)
UntwistLoop(fuel, c) ==
    IF fuel = 0 \/ ~UntwistCond(c) THEN c
    ELSE IF fuel = 1 THEN UntwistBody(c)
    ELSE UntwistLoop(fuel - (fuel \div 2), UntwistLoop(fuel \div 2, c))

\* the boundary updates reading the live mt[mid] instead of the saved stateMid
UntwistTailUnsaved(c, stateMid) ==
    LET mid == c.mid
        x   == Or64(And64(Rd(c.mt, mid - 1), UM), And64(Rd(c.mt, mid), LM))
        mt1 == Wr(c.mt, mid - 1,
                  Xor64(Xor64(Rd(c.mt, NN - 1), Shr64(x, 1)),
                        Mul64(And64(Rd(c.mt, mid), One64), MATRIX_A)))
        y   == Or64(And64(Rd(mt1, NN - 1), UM), And64(Rd(mt1, 0), LM))
        mt2 == Wr(mt1, NN - 1,
                  Xor64(Xor64(Rd(mt1, mid - 1), Shr64(y, 1)),
                        Mul64(And64(Rd(mt1, 0), One64), MATRIX_A)))
    IN  [mt |-> mt2, ix |-> c.ix \cup {mid - 1, NN - 1, 0}]

\* the two boundary updates after the loop
UntwistTail(c, stateMid) ==
    LET mid == c.mid
        x   == Or64(And64(Rd(c.mt, mid - 1), UM), And64(stateMid, LM))
        mt1 == Wr(c.mt, mid - 1,
                  Xor64(Xor64(Rd(c.mt, NN - 1), Shr64(x, 1)),
                        Mul64(And64(stateMid, One64), MATRIX_A)))
        y   == Or64(And64(Rd(mt1, NN - 1), UM), And64(Rd(mt1, 0), LM))
        mt2 == Wr(mt1, NN - 1,
                  Xor64(Xor64(Rd(mt1, mid - 1), Shr64(y, 1)),
                        Mul64(And64(Rd(mt1, 0), One64), MATRIX_A)))
    IN  [mt |-> mt2, ix |-> c.ix \cup {mid - 1, NN - 1, 0}]

Untwist(mt) ==
    LET mid      == NN \div 2
        stateMid == Rd(mt, mid)
        c        == UntwistLoop(NN, [mt |-> mt, i |-> 0, j |-> mid, mid |-> mid,
                                     ix |-> {mid}])
    IN  UntwistTail(c, stateMid)

Temper(r) ==
    LET r1 == Xor64(r,  And64(Shr64(r, 29),  W(\H5555, \H5555, \H5555, \H5555)))
        r2 == Xor64(r1, And64(Shl64(r1, 17), W(\H71D6, \H7FFF, \HEDA6, \H0000)))
        r3 == Xor64(r2, And64(Shl64(r2, 37), W(\HFFF7, \HEEE0, \H0000, \H0000)))
    IN  Xor64(r3, Shr64(r3, 43))

\* "if (context->mti >= NN)"
NeedsRegenLate(mti) == mti > NN
NeedsRegenAtMid(mti) == mti >= MM
NeedsRegen(mti) == mti >= NN

genrand64_int64(context) ==
    LET regen == NeedsRegen(context.mti)
        u     == IF regen THEN Untwist(context.mt) ELSE [mt |-> context.mt, ix |-> {}]
        mti0  == IF regen THEN 0 ELSE context.mti
    IN  [mt |-> u.mt, mti |-> mti0 + 1, result |-> Temper(Rd(u.mt, mti0)),
         regen |-> regen, ix |-> u.ix \cup {mti0}]

\* 2^63 - 1, the mask that clears bit 63
Low63 == W(\H7FFF, \HFFFF, \HFFFF, \HFFFF)

\* the draw with its top bit masked off instead of shifted right
genrand64_int63_masked(context) ==
    LET d == genrand64_int64(context)
    IN  [d EXCEPT !.result = And64(d.result, Low63)] @@ [raw |-> d.result]

\* (long long)(genrand64_int64(context) >> 1); the value is below 2^63, so
\* the signed result has the same limbs
genrand64_int63(context) ==
    LET d == genrand64_int64(context)
    IN  [d EXCEPT !.result = Shr64(d.result, 1)] @@ [raw |-> d.result]

\* ------------------------------------------------------------------------
\* xoshiro256starstar.c
\* ------------------------------------------------------------------------
rotl(x, k) == Or64(Shl64(x, k), Shr64(x, 64 - k))

\* state->s[i] of the C array (0-based)
SAt(st, i) == st[i + 1]
SSet(st, i, v) == [st EXCEPT ![i + 1] = v]

\* "s[2] ^= s[0]; s[3] ^= s[1]; s[1] ^= s[2]; s[0] ^= s[3];" with every
\* right-hand side taken from the state before the step
XorStepsFromSnapshot(state) ==
    <<Xor64(SAt(state, 0), SAt(state, 3)), Xor64(SAt(state, 1), SAt(state, 2)),
      Xor64(SAt(state, 2), SAt(state, 0)), Xor64(SAt(state, 3), SAt(state, 1))>>

\* "s[2] ^= s[0]; s[3] ^= s[1]; s[1] ^= s[2]; s[0] ^= s[3];"
XorSteps(state) ==
    LET a1 == SSet(state, 2, Xor64(SAt(state, 2), SAt(state, 0)))
        a2 == SSet(a1, 3, Xor64(SAt(a1, 3), SAt(a1, 1)))
        a3 == SSet(a2, 1, Xor64(SAt(a2, 1), SAt(a2, 2)))
    IN  SSet(a3, 0, Xor64(SAt(a3, 0), SAt(a3, 3)))

\* "s[3] = rotl(s[3], 45)" with a shift for the rotation, and with the
\* arguments of rotl exchanged (the count taken modulo 64)
LastRotateShifted(s3) == Shl64(s3, 45)
LastRotateSwapped(s3) ==
    LET k == s3[1] % 64
    IN  IF k = 0 THEN U64(45) ELSE rotl(U64(45), k)
LastRotate(s3) == rotl(s3, 45)

xoshiro_next(state) ==
    LET result_starstar == Mul64(rotl(Mul64(SAt(state, 1), U64(5)), 7), U64(9))
        t  == Shl64(SAt(state, 1), 17)
        a4 == XorSteps(state)
        a5 == SSet(a4, 2, Xor64(SAt(a4, 2), t))
        a6 == SSet(a5, 3, LastRotate(SAt(a5, 3)))
    IN  [s |-> a6, result |-> result_starstar]

\* ------------------------------------------------------------------------
\* The generators as state machines
\* ------------------------------------------------------------------------
VARIABLES
    mt,         \* context->mt, the 312-word register
    mti,        \* context->mti
    seedKind,   \* "none", "scalar" (init_genrand64) or "array" (init_by_array64)
    seedArg,    \* the seed, or the key, of the seeding call
    draws,      \* number of extractions since seeding
    regenAt,    \* the extractions (1-based) that regenerated the register
    lastOp,     \* the last operation called
    result,     \* its return value
    raw,        \* the genrand64_int64 value it consumed
    log,        \* cursor values, pass lengths and register indices it used
    s,          \* xoshiro_state.s
    xseed,      \* the caller-supplied xoshiro state
    xdraws,     \* number of xoshiro_next calls
    xresult     \* return value of the last xoshiro_next

mtVars == <<mt, mti, seedKind, seedArg, draws, regenAt, lastOp, result, raw, log>>
xVars  == <<s, xseed, xdraws, xresult>>
vars   == <<mt, mti, seedKind, seedArg, draws, regenAt, lastOp, result, raw, log,
           s, xseed, xdraws, xresult>>

MaxDraws   == 626       \* extractions explored after a seeding (two batches and the third regeneration)
MaxXDraws  == 40        \* xoshiro_next calls explored
LongKeyLen == 313       \* a key longer than the register

AllOnes == W(\HFFFF, \HFFFF, \HFFFF, \HFFFF)

ScalarSeeds == {U64(0), U64(1), U64(5489), W(\H0000, \H0001, \H0000, \H0000), MSB, AllOnes}

\* the key of the published test vector, a one-word key, a key longer than NN
RefKey  == <<W(0, 0, \H0001, \H2345), W(0, 0, \H0002, \H3456),
             W(0, 0, \H0003, \H4567), W(0, 0, \H0004, \H5678)>>
LongKey == [n \in 1..LongKeyLen |-> U64(n - 1)]
Keys == {RefKey, <<Zero64>>, <<AllOnes, One64>>, LongKey}

XSeeds == {<<U64(1), U64(2), U64(3), U64(4)>>,
           <<Zero64, Zero64, Zero64, Zero64>>,
           <<MSB, Zero64, MSB, MSB>>,
           <<One64, Zero64, Zero64, Zero64>>,
           <<AllOnes, AllOnes, AllOnes, AllOnes>>,
           <<W(\H0123, \H4567, \H89AB, \HCDEF), Zero64, AllOnes, MSB>>}

NoLog == [ci |-> {}, cj |-> {}, n1 |-> 0, n2 |-> 0, ix |-> {}]

\* a zero-filled struct mt19937_64 that no seeding call has touched yet
MtUnseeded ==
    /\ mt = [n \in 1..NN |-> Zero64]
    /\ mti = 0
    /\ seedKind = "none"
    /\ seedArg = Zero64
    /\ draws = 0
    /\ regenAt = {}
    /\ lastOp = "none"
    /\ result = Zero64
    /\ raw = Zero64
    /\ log = NoLog

XSeeded(seed) ==
    /\ s = seed
    /\ xseed = seed
    /\ xdraws = 0
    /\ xresult = Zero64

\* A context is seeded once, by either seeding function, before anything is
\* extracted from it; init_genrand64_fromtime is init_genrand64 with a seed
\* the clock chooses.  The double-precision extractions genrand64_real1..3
\* consume one genrand64_int64 value each and are not modelled further.
Init == MtUnseeded /\ XSeeded(<<U64(1), U64(2), U64(3), U64(4)>>)

InitX == MtUnseeded /\ \E seed \in XSeeds : XSeeded(seed)

InitGenrand64 ==
    \E seed \in ScalarSeeds :
        /\ seedKind = "none"
        /\ \E c \in {init_genrand64([mt |-> mt, mti |-> mti], seed)} :
               /\ mt' = c.mt
               /\ mti' = c.mti
        /\ seedKind' = "scalar"
        /\ seedArg' = seed
        /\ draws' = 0
        /\ regenAt' = {}
        /\ lastOp' = "init_genrand64"
        /\ log' = NoLog
        /\ UNCHANGED <<result, raw>>
        /\ UNCHANGED xVars

InitByArray64 ==
    \E key \in Keys :
        /\ seedKind = "none"
        /\ \E c \in {init_by_array64([mt |-> mt, mti |-> mti], key, Len(key))} :
               /\ mt' = c.mt
               /\ mti' = c.mti
               /\ log' = [ci |-> c.ci, cj |-> c.cj, n1 |-> c.n1, n2 |-> c.n2, ix |-> {}]
        /\ seedKind' = "array"
        /\ seedArg' = key
        /\ draws' = 0
        /\ regenAt' = {}
        /\ lastOp' = "init_by_array64"
        /\ UNCHANGED <<result, raw>>
        /\ UNCHANGED xVars

Genrand64Int64 ==
    /\ seedKind # "none"
    /\ draws < MaxDraws
    /\ \E d \in {genrand64_int64([mt |-> mt, mti |-> mti])} :
           /\ mt' = d.mt
           /\ mti' = d.mti
           /\ result' = d.result
           /\ raw' = d.result
           /\ regenAt' = IF d.regen THEN regenAt \cup {draws + 1} ELSE regenAt
           /\ log' = [NoLog EXCEPT !.ix = d.ix]
    /\ draws' = draws + 1
    /\ lastOp' = "genrand64_int64"
    /\ UNCHANGED <<seedKind, seedArg>>
    /\ UNCHANGED xVars

Genrand64Int63 ==
    /\ seedKind # "none"
    /\ draws < MaxDraws
    /\ \E d \in {genrand64_int63([mt |-> mt, mti |-> mti])} :
           /\ mt' = d.mt
           /\ mti' = d.mti
           /\ result' = d.result
           /\ raw' = d.raw
           /\ regenAt' = IF d.regen THEN regenAt \cup {draws + 1} ELSE regenAt
           /\ log' = [NoLog EXCEPT !.ix = d.ix]
    /\ draws' = draws + 1
    /\ lastOp' = "genrand64_int63"
    /\ UNCHANGED <<seedKind, seedArg>>
    /\ UNCHANGED xVars

XoshiroNext ==
    /\ xdraws < MaxXDraws
    /\ \E r \in {xoshiro_next(s)} :
           /\ s' = r.s
           /\ xresult' = r.result
    /\ xdraws' = xdraws + 1
    /\ UNCHANGED xseed
    /\ UNCHANGED mtVars

Next == InitGenrand64 \/ InitByArray64 \/ Genrand64Int64 \/ Genrand64Int63

NextX == XoshiroNext

Spec == Init /\ [][Next]_vars

SpecX == InitX /\ [][NextX]_vars

\* ------------------------------------------------------------------------
\* Properties
\* ------------------------------------------------------------------------
Seeded    == seedKind # "none"
DrawStep  == Seeded /\ draws' = draws + 1
AllZero(m) == \A n \in 1..NN : m[n] = Zero64
Zero4 == <<Zero64, Zero64, Zero64, Zero64>>
TopBit(w) == w[4] \div 2^15
Bit0(w)   == w[1] % 2

\* The textbook recurrence as one in-place pass k = 0..NN-1 with indices
\* taken modulo NN.
NaiveCond(c) == c.k < NN
NaiveBody(c) ==
    LET k    == c.k
        next == Rd(c.mt, (k + 1) % NN)
        x    == Or64(And64(Rd(c.mt, k), UM), And64(next, LM))
    IN  [mt |-> Wr(c.mt, k,
                   Xor64(Xor64(Rd(c.mt, (k + MM) % NN), Shr64(x, 1)),
                         IF Bit0(next) = 1 THEN MATRIX_A ELSE Zero64)),
         k  |-> k + 1]
RECURSIVE NaiveLoop(_, _)
NaiveLoop(fuel, c) ==
    IF fuel = 0 \/ ~NaiveCond(c) THEN c
    ELSE IF fuel = 1 THEN NaiveBody(c)
    ELSE NaiveLoop(fuel - (fuel \div 2), NaiveLoop(fuel \div 2, c))

NaiveUntwist(m) == NaiveLoop(NN, [mt |-> m, k |-> 0]).mt

\* C1: every regeneration done by an extraction leaves the register equal,
\* word for word, to the single modulo-indexed pass of the textbook
\* recurrence over the register it started from.
UntwistMatchesTextbook ==
    [][(DrawStep /\ regenAt' # regenAt) => mt' = NaiveUntwist(mt)]_vars

\* 7266447313870364031 = 0x64D79B552A559D7F, the first published output for RefKey
RefFirst == W(\H64D7, \H9B55, \H2A55, \H9D7F)

\* C1 witness: the register seeded with the published key has been
\* regenerated by the first extraction, which returned the published value.
UntwistWitness ==
    /\ seedKind = "array" /\ seedArg = RefKey
    /\ draws = 1 /\ regenAt = {1}
    /\ lastOp = "genrand64_int64" /\ result = RefFirst
    /\ mti = 1

\* C2 as stated: right after either seeding operation words[0] has bit 63 set.
SeedingSetsMSB ==
    (Seeded /\ draws = 0) => TopBit(Rd(mt, 0)) = 1

\* C2 amended: right after init_by_array64 words[0] is 2^63 (bit 63 set);
\* right after init_genrand64 words[0] is the seed itself, whatever its bit 63.
ArraySeedingSetsMSB ==
    /\ (seedKind = "array" /\ draws = 0) =>
            (Rd(mt, 0) = MSB /\ TopBit(Rd(mt, 0)) = 1)
    /\ (seedKind = "scalar" /\ draws = 0) => Rd(mt, 0) = seedArg

\* C2 witness: a register just seeded from the key longer than the register.
ArraySeedingWitness ==
    /\ lastOp = "init_by_array64" /\ draws = 0
    /\ Len(seedArg) = LongKeyLen
    /\ Rd(mt, 0) = MSB
    /\ ~AllZero(mt)

\* C3: either seeding leaves index = NN, and among the first 2*NN extractions
\* after it exactly the 1st and the (NN+1)th regenerate the register.
RegenerationsAt1And313 ==
    Seeded =>
        /\ (draws = 0 => mti = NN)
        /\ (draws <= 2 * NN => regenAt = {d \in {1, NN + 1} : d <= draws})

\* C3 witness: 2*NN values drawn, two regenerations.
TwoBatchesDrawn ==
    Seeded /\ draws = 2 * NN /\ regenAt = {1, NN + 1} /\ mti = NN

\* C4: after init_genrand64 with a non-zero seed the register is not all
\* zero, neither right after seeding nor after any regeneration.
NonZeroSeedNeverAllZero ==
    (seedKind = "scalar" /\ seedArg # Zero64) => ~AllZero(mt)

\* C4 witness: a non-zero scalar seed, three regenerations later.
ThirdRegenerationNonZero ==
    /\ seedKind = "scalar" /\ seedArg # Zero64
    /\ regenAt = {1, NN + 1, 2 * NN + 1}
    /\ ~AllZero(mt)

\* C5 as stated: genrand64_int63 returns the draw with its top bit cleared.
Int63ClearsTopBit ==
    lastOp = "genrand64_int63" => result = And64(raw, Low63)

\* C5 amended: genrand64_int63 consumes exactly one genrand64_int64 draw d
\* and returns d >> 1: the lowest bit of d is dropped and the upper 63 bits
\* are kept (d = 2 * result + bit 0 of d), a value in [0, 2^63 - 1].
Int63IsDrawShiftedRight ==
    [][(DrawStep /\ lastOp' = "genrand64_int63") =>
            \E d \in {genrand64_int64([mt |-> mt, mti |-> mti])} :
                /\ mt' = d.mt /\ mti' = d.mti /\ raw' = d.result
                /\ Add64(Add64(result', result'), U64(Bit0(raw'))) = raw'
                /\ TopBit(result') = 0]_vars

\* C5 witness: a 63-bit draw of a value whose top and lowest bits are both
\* set, so that clearing the top bit and shifting right differ in both.
Int63Witness ==
    /\ lastOp = "genrand64_int63"
    /\ TopBit(raw) = 1 /\ Bit0(raw) = 1
    /\ TopBit(result) = 0
    /\ result # And64(raw, Low63)

\* C9: an extraction with index < NN leaves every word as it was, returns
\* the tempered words[index] and adds one to index; the register changes
\* only in an extraction that finds index >= NN; index stays in 0..NN.
ExtractionFrame ==
    [][/\ Seeded' => mti' \in 0..NN
       /\ (DrawStep /\ mti < NN) =>
            /\ mt' = mt
            /\ mti' = mti + 1
            /\ raw' = Temper(Rd(mt, mti))
            /\ regenAt' = regenAt
       /\ (Seeded /\ mt' # mt) => (DrawStep /\ mti >= NN /\ regenAt' # regenAt)]_vars

\* C9 witness: the last extraction of a batch: index was NN-1, is now NN.
LastOfBatch ==
    /\ Seeded /\ draws = NN /\ mti = NN /\ regenAt = {1}
    /\ raw = Temper(Rd(mt, NN - 1))

\* C10: init_by_array64 uses its state cursor only with 1 <= i <= NN-1 and
\* its key cursor only with 0 <= j <= L-1, pass 1 running max(NN, L) times
\* and pass 2 NN-1 times; genrand64_int64 uses only indices in 0..NN-1.
IndexInBounds ==
    /\ lastOp = "init_by_array64" =>
            /\ log.ci \subseteq 1..(NN - 1)
            /\ log.cj \subseteq 0..(Len(seedArg) - 1)
            /\ log.n1 = (IF NN > Len(seedArg) THEN NN ELSE Len(seedArg))
            /\ log.n2 = NN - 1
    /\ lastOp \in {"genrand64_int64", "genrand64_int63"} =>
            /\ log.ix # {}
            /\ log.ix \subseteq 0..(NN - 1)

\* C10 witness: seeding from the key longer than the register has used
\* every cursor value, and a regenerating extraction every index.
CursorsWitness ==
    \/ /\ lastOp = "init_by_array64" /\ Len(seedArg) = LongKeyLen
       /\ log.ci = 1..(NN - 1) /\ log.cj = 0..(LongKeyLen - 1)
       /\ log.n1 = LongKeyLen
    \/ /\ lastOp = "genrand64_int64" /\ seedKind = "array"
       /\ Len(seedArg) = LongKeyLen /\ draws = NN + 1
       /\ log.ix = 0..(NN - 1)

\* C6: xoshiro_next returns rotl(s[1] * 5, 7) * 9 of the state before the
\* step and leaves s[0] = s0^s1^s3, s[1] = s0^s1^s2, s[2] = s0^s2^(s1 << 17),
\* s[3] = rotl(s1^s3, 45), which is what the assignments give when each one
\* reads the words the earlier ones have already updated; from [1, 2, 3, 4]
\* it returns 11520 and leaves [7, 0, 262146, 211106232532992].
XoshiroStep ==
    [][xdraws' = xdraws + 1 =>
            /\ xresult' = Mul64(rotl(Mul64(s[2], U64(5)), 7), U64(9))
            /\ s'[1] = Xor64(Xor64(s[1], s[2]), s[4])
            /\ s'[2] = Xor64(Xor64(s[1], s[2]), s[3])
            /\ s'[3] = Xor64(Xor64(s[1], s[3]), Shl64(s[2], 17))
            /\ s'[4] = rotl(Xor64(s[2], s[4]), 45)
            /\ (s = <<U64(1), U64(2), U64(3), U64(4)>> =>
                    /\ xresult' = U64(11520)
                    /\ s' = <<U64(7), Zero64, U64(262146),
                              W(\H0000, \HC000, \H0000, \H0000)>>)]_vars

\* C6 witness: the state after the first draw from [1, 2, 3, 4].
XoshiroReferenceWitness ==
    /\ xseed = <<U64(1), U64(2), U64(3), U64(4)>> /\ xdraws = 1
    /\ xresult = U64(11520)
    /\ s = <<U64(7), Zero64, U64(262146), W(\H0000, \HC000, \H0000, \H0000)>>

\* C7: a generator given the all-zero state is in the all-zero state after
\* any number of calls, every call has returned 0, and the next call is
\* again an ordinary step (a state and a value, nothing else) returning 0.
ZeroStateIsFixedPoint ==
    xseed = Zero4 =>
        /\ s = Zero4
        /\ xresult = Zero64
        /\ xoshiro_next(s) = [s |-> Zero4, result |-> Zero64]

\* C7 witness: the all-zero state after several calls.
ZeroStreamWitness ==
    xseed = Zero4 /\ xdraws = MaxXDraws /\ s = Zero4 /\ xresult = Zero64

\* C8: a call on a state that is not all zero leaves a state that is not
\* all zero.
NonZeroPreserved ==
    [][(xdraws' = xdraws + 1 /\ s # Zero4) => s' # Zero4]_vars

\* C8 witness: from [2^63, 0, 2^63, 2^63] every XOR cancels and the rotated
\* word alone keeps the state from zero.
NonZeroWitness ==
    /\ xseed = <<MSB, Zero64, MSB, MSB>> /\ xdraws = 1
    /\ s = <<Zero64, Zero64, Zero64, W(\H0000, \H1000, \H0000, \H0000)>>

====
